---- MODULE Spec2Model ----
(***************************************************************************)
(* A model of composer/utils/object_store.py (the libcloud adapter) and of *)
(* composer/models/bert/model.py (the BERT task wrappers).                 *)
(*                                                                         *)
(* Every adapter or wrapper method is one action.  The external libraries  *)
(* (the libcloud driver, the Hugging Face forward pass) are environment:   *)
(* each call into them is logged in calls with the arguments it got, and   *)
(* its outcome (a returned value or a raised exception) is chosen with \E. *)
(* result holds what the caller of the last operation passed and saw; the  *)
(* caller looks at it (CallerContinues) before the next operation starts.  *)
(* SpecStore runs the adapter, SpecBert the wrappers.                      *)
(***************************************************************************)
EXTENDS Integers, Sequences, FiniteSets, TLC

VARIABLES
    libcloud_installed, \* can libcloud.storage.providers be imported
    store,              \* the ObjectStoreProvider instances: {} or {instance}
    calls,              \* calls into external code made by the last operation
    result,             \* the last operation: its arguments and its outcome
    bert,               \* the BERT wrapper instances: {} or {instance}
    held_outputs        \* the forward-pass output mapping last handed to loss

vars == <<libcloud_installed, store, calls, result, bert, held_outputs>>

storeVars == <<libcloud_installed, store>>
bertVars == <<bert, held_outputs>>

-----------------------------------------------------------------------------
(* Python values *)

\* Python's None.
None == "None"

\* A call that returned `v`.
Return(v) == [kind |-> "return", value |-> v, exc |-> None, msg |-> None, cause |-> None]

\* A call that raised exception type `e` with message `m`, chained to `c`.
Raise(e, m, c) == [kind |-> "raise", value |-> None, exc |-> e, msg |-> m, cause |-> c]

\* One logged call into external code: what was called, with which arguments,
\* and how the call ended.
Call(method, args, outcome) == [method |-> method, args |-> args, outcome |-> outcome]

\* An Optional[Dict] argument: None, or the dict d.
NoDict == [is_none |-> TRUE, dict |-> <<>>]
SomeDict(d) == [is_none |-> FALSE, dict |-> d]

\* dict.update: the entries of `e` on top of those of `d`.
DictUpdate(d, e) ==
    [k \in (DOMAIN d) \cup (DOMAIN e) |-> IF k \in DOMAIN e THEN e[k] ELSE d[k]]

\* d[k] = v on a dict.
DictSet(d, k, v) == [x \in (DOMAIN d) \cup {k} |-> IF x = k THEN v ELSE d[x]]

EmptyDict == <<>>

-----------------------------------------------------------------------------
(* Bounds *)

\* Longest bytes payload handed to upload_object_via_stream.
MaxLen == 2
\* Largest byte value in a payload (255 in Python).
MaxByte == 1
\* Largest config.num_labels.
MaxLabels == 2
\* Largest size of a tensor dimension.
MaxDim == 2

-----------------------------------------------------------------------------
(* Inputs of the object store adapter *)

Providers == {"s3", "google_storage"}
Containers == {"bucket_a", "bucket_b"}
ObjectNames == {"obj_1", "obj_2"}
Paths == {"/tmp/a", "/tmp/b"}
Extras == {None, "extra_1"}
Headers == {None, "headers_1"}
ChunkSizes == {None, "1024"}

BytesVals == UNION {[1..n -> 0..MaxByte] : n \in 0..MaxLen}

\* A bytes object the caller passes as payload.
BytesPayload(b) == [kind |-> "bytes", bytes |-> b, chunks |-> <<>>, origin |-> "caller"]

\* An iterator over byte chunks; origin tells who created the iterator object.
IteratorPayload(cs, who) == [kind |-> "iterator", bytes |-> <<>>, chunks |-> cs, origin |-> who]

Payloads ==
    {BytesPayload(b) : b \in BytesVals}
        \cup {IteratorPayload(<<b>>, "caller") : b \in BytesVals \ {<<>>}}
        \cup {IteratorPayload(<<>>, "caller")}

\* What the driver's methods may return, and what they may raise.
DriverReturns == {None, "driver_value_1", "driver_value_2"}
DriverErrors == {"LibcloudError", "ObjectHashMismatchError"}
DriverOutcomes ==
    {Return(v) : v \in DriverReturns} \cup {Raise(e, "driver message", None) : e \in DriverErrors}

\* The container object get_container returns, and the object get_object returns.
ContainerObj(name) == [name |-> name]
StoredObj(container_name, object_name) == [container |-> container_name, name |-> object_name]

GetObjectOutcomes == {"found", "ObjectDoesNotExistError"}

-----------------------------------------------------------------------------
(* ObjectStoreProvider *)

ImportHint == "libcloud is not installed. To install composer with libcloud, please run pip install mosaicml[logging]."

\* The exception the failed import of libcloud.storage.providers raised.
OriginalImportError == "ImportError: No module named libcloud"

\* The library call of the constructor that raises, if any.
InitFailures == {"none", "get_driver", "provider_cls", "get_container"}

\* __init__ without the default for provider_init_kwargs: provider_cls(**None)
\* is a TypeError raised before the driver class is entered.
ObjectStoreProvider_init_nodefault(installed, provider, container, provider_init_kwargs, fail) ==
    LET err(e) == Raise(e, "driver message", None)
        ok1 == Call("get_driver", [provider |-> provider], Return("provider_cls"))
        ok2 == Call("provider_cls", [kwargs |-> provider_init_kwargs.dict], Return("driver"))
        ok3 == Call("get_container", [container_name |-> container], Return("container"))
    IN  IF ~installed
        THEN [calls |-> <<>>,
              outcome |-> Raise("ImportError", ImportHint, OriginalImportError),
              made |-> {}]
        ELSE IF fail = "get_driver"
        THEN [calls |-> <<Call("get_driver", [provider |-> provider], err("AttributeError"))>>,
              outcome |-> err("AttributeError"),
              made |-> {}]
        ELSE IF provider_init_kwargs.is_none
        THEN [calls |-> <<ok1>>,
              outcome |-> Raise("TypeError", "argument after ** must be a mapping", None),
              made |-> {}]
        ELSE IF fail = "provider_cls"
        THEN [calls |-> <<ok1, Call("provider_cls", [kwargs |-> provider_init_kwargs.dict],
                                    err("LibcloudError"))>>,
              outcome |-> err("LibcloudError"),
              made |-> {}]
        ELSE IF fail = "get_container"
        THEN [calls |-> <<ok1, ok2, Call("get_container", [container_name |-> container],
                                         err("ContainerDoesNotExistError"))>>,
              outcome |-> err("ContainerDoesNotExistError"),
              made |-> {}]
        ELSE [calls |-> <<ok1, ok2, ok3>>,
              outcome |-> Return(None),
              made |-> {[_provider |-> [name |-> provider], _container |-> ContainerObj(container)]}]

\* ObjectStoreProvider.__init__: the calls it makes, its outcome, and the
\* instances it leaves (a singleton on success).  fail is the library call
\* that raises, if any.
ObjectStoreProvider_init(installed, provider, container, provider_init_kwargs, fail) ==
    LET kwargs == IF provider_init_kwargs.is_none THEN EmptyDict ELSE provider_init_kwargs.dict
        err(e) == Raise(e, "driver message", None)
        ok1 == Call("get_driver", [provider |-> provider], Return("provider_cls"))
        ok2 == Call("provider_cls", [kwargs |-> kwargs], Return("driver"))
        ok3 == Call("get_container", [container_name |-> container], Return("container"))
    IN  IF ~installed
        THEN [calls |-> <<>>,
              outcome |-> Raise("ImportError", ImportHint, OriginalImportError),
              made |-> {}]
        ELSE IF fail = "get_driver"
        THEN [calls |-> <<Call("get_driver", [provider |-> provider], err("AttributeError"))>>,
              outcome |-> err("AttributeError"),
              made |-> {}]
        ELSE IF fail = "provider_cls"
        THEN [calls |-> <<ok1, Call("provider_cls", [kwargs |-> kwargs], err("LibcloudError"))>>,
              outcome |-> err("LibcloudError"),
              made |-> {}]
        ELSE IF fail = "get_container"
        THEN [calls |-> <<ok1, ok2, Call("get_container", [container_name |-> container],
                                         err("ContainerDoesNotExistError"))>>,
              outcome |-> err("ContainerDoesNotExistError"),
              made |-> {}]
        ELSE [calls |-> <<ok1, ok2, ok3>>,
              outcome |-> Return(None),
              made |-> {[_provider |-> [name |-> provider], _container |-> ContainerObj(container)]}]

\* What a method that ends with a bare driver call statement gives its caller:
\* the driver's exception, or None when the driver returned.
Discard(d) == IF d.kind = "raise" THEN d ELSE Return(None)

\* ObjectStoreProvider.upload_object; d is how the driver's call ends.
upload_object(self, file_path, object_name, verify_hash, extra, headers, d) ==
    [calls |-> <<Call("upload_object",
                      [file_path |-> file_path,
                       container |-> self._container,
                       object_name |-> object_name,
                       extra |-> extra,
                       verify_hash |-> verify_hash,
                       headers |-> headers], d)>>,
     outcome |-> Discard(d)]

\* iter(i.to_bytes(1, sys.byteorder) for i in obj): one chunk of one byte per
\* byte of obj, in order, from an iterator the adapter creates.
BytesToIterator(obj) ==
    IteratorPayload([i \in 1..Len(obj.bytes) |-> <<obj.bytes[i]>>], "adapter")

\* upload_object_via_stream wrapping a bytes payload as one chunk, iter([obj]).
upload_object_via_stream_whole(self, obj, object_name, extra, headers, d) ==
    LET it == IF obj.kind = "bytes" THEN IteratorPayload(<<obj.bytes>>, "adapter") ELSE obj
    IN  [calls |-> <<Call("upload_object_via_stream",
                          [iterator |-> it,
                           container |-> self._container,
                           object_name |-> object_name,
                           extra |-> extra,
                           headers |-> headers], d)>>,
         outcome |-> Discard(d)]

\* ObjectStoreProvider.upload_object_via_stream.
upload_object_via_stream(self, obj, object_name, extra, headers, d) ==
    LET it == IF obj.kind = "bytes" THEN BytesToIterator(obj) ELSE obj
    IN  [calls |-> <<Call("upload_object_via_stream",
                          [iterator |-> it,
                           container |-> self._container,
                           object_name |-> object_name,
                           extra |-> extra,
                           headers |-> headers], d)>>,
         outcome |-> Discard(d)]

\* ObjectStoreProvider._get_object; g is how the driver's lookup ends.
get_object_call(self, object_name, g) ==
    Call("get_object",
         [container_name |-> self._container.name, object_name |-> object_name],
         IF g = "found"
         THEN Return(StoredObj(self._container.name, object_name))
         ELSE Raise(g, "driver message", None))

\* ObjectStoreProvider.download_object.
download_object(self, object_name, destination_path, overwrite_existing, delete_on_failure, g, d) ==
    LET look == get_object_call(self, object_name, g)
    IN  IF look.outcome.kind = "raise"
        THEN [calls |-> <<look>>, outcome |-> look.outcome]
        ELSE [calls |-> <<look,
                          Call("download_object",
                               [obj |-> look.outcome.value,
                                destination_path |-> destination_path,
                                overwrite_existing |-> overwrite_existing,
                                delete_on_failure |-> delete_on_failure], d)>>,
              outcome |-> Discard(d)]

\* download_object_as_stream without its return statement.
download_object_as_stream_noreturn(self, object_name, chunk_size, g, d) ==
    LET look == get_object_call(self, object_name, g)
    IN  IF look.outcome.kind = "raise"
        THEN [calls |-> <<look>>, outcome |-> look.outcome]
        ELSE [calls |-> <<look,
                          Call("download_object_as_stream",
                               [obj |-> look.outcome.value, chunk_size |-> chunk_size], d)>>,
              outcome |-> Discard(d)]

\* ObjectStoreProvider.download_object_as_stream.
download_object_as_stream(self, object_name, chunk_size, g, d) ==
    LET look == get_object_call(self, object_name, g)
    IN  IF look.outcome.kind = "raise"
        THEN [calls |-> <<look>>, outcome |-> look.outcome]
        ELSE [calls |-> <<look,
                          Call("download_object_as_stream",
                               [obj |-> look.outcome.value, chunk_size |-> chunk_size], d)>>,
              outcome |-> d]

-----------------------------------------------------------------------------
(* ObjectStoreProviderHparams *)

\* The optional fields, in the order initialize_object visits them.
HparamsFields == <<"key", "secret", "host", "port", "region">>

FieldVals == [key |-> "key_1", secret |-> "secret_1", host |-> "host_1",
              port |-> "port_1", region |-> "region_1"]

ExtraNames == {"key", "region", "token"}
ExtraVals == {None, "extra_value"}
ExtraKwargs == UNION {[D -> ExtraVals] : D \in SUBSET ExtraNames}

HparamsSet ==
    [provider : Providers, container : Containers,
     key : {None, FieldVals.key}, secret : {None, FieldVals.secret},
     host : {None, FieldVals.host}, port : {None, FieldVals.port},
     region : {None, FieldVals.region},
     extra_init_kwargs : ExtraKwargs]

\* The loop of initialize_object over the first n fields.
RECURSIVE FieldKwargs(_, _)
FieldKwargs(self, n) ==
    IF n = 0 THEN EmptyDict
    ELSE LET init_kwargs == FieldKwargs(self, n - 1)
             key == HparamsFields[n]
             kwarg == self[key]
         IN  IF self[key] # None THEN DictSet(init_kwargs, key, kwarg) ELSE init_kwargs

\* initialize_object with the fields written on top of extra_init_kwargs, into
\* the dict of the hparams object itself.
RECURSIVE FieldsOnTop(_, _, _)
FieldsOnTop(self, d, n) ==
    IF n = 0 THEN d
    ELSE LET init_kwargs == FieldsOnTop(self, d, n - 1)
             key == HparamsFields[n]
         IN  IF self[key] # None THEN DictSet(init_kwargs, key, self[key]) ELSE init_kwargs

initialize_kwargs_aliased(self) ==
    LET d == FieldsOnTop(self, self.extra_init_kwargs, Len(HparamsFields))
    IN  [init_kwargs |-> d, self |-> [self EXCEPT !.extra_init_kwargs = d]]

\* initialize_object up to the constructor call: the init_kwargs it has built
\* and the hparams object as the method leaves it (update copies the entries of
\* extra_init_kwargs into the fresh init_kwargs dict; nothing is assigned to self).
initialize_kwargs(self) ==
    [init_kwargs |-> DictUpdate(FieldKwargs(self, Len(HparamsFields)), self.extra_init_kwargs),
     self |-> self]

-----------------------------------------------------------------------------
(* Tensors, by shape *)

\* A tensor: which one it is and its shape.
Tensor(id, shape) == [id |-> id, shape |-> shape]

\* None where a tensor may stand.
NoneT == Tensor("None", <<>>)

RECURSIVE Numel(_)
Numel(shape) == IF shape = <<>> THEN 1 ELSE Head(shape) * Numel(Tail(shape))

\* t.view(-1, n)
ViewRows(t, n) ==
    IF n <= 0 \/ Numel(t.shape) % n # 0
    THEN Raise("RuntimeError", "shape is invalid for input", None)
    ELSE Return(Tensor(t.id, <<Numel(t.shape) \div n, n>>))

\* t.view(-1)
ViewFlat(t) == Return(Tensor(t.id, <<Numel(t.shape)>>))

RECURSIVE DropOnes(_)
DropOnes(shape) ==
    IF shape = <<>> THEN <<>>
    ELSE IF Head(shape) = 1 THEN DropOnes(Tail(shape))
    ELSE <<Head(shape)>> \o DropOnes(Tail(shape))

\* t.squeeze()
Squeeze(t) == Return(Tensor(t.id, DropOnes(t.shape)))

\* t as it is.
Same(t) == Return(t)

\* squeeze() in the place of squeeze(dim=1): every dimension of size 1 goes.
SqueezeDim1_all(t) == Tensor(t.id, DropOnes(t.shape))

\* t.squeeze(dim=1)
SqueezeDim1(t) ==
    IF t.shape[2] = 1
    THEN Tensor(t.id, <<t.shape[1]>> \o SubSeq(t.shape, 3, Len(t.shape)))
    ELSE t

\* d[k] on a mapping: the value, or KeyError.
GetItem(d, k) == IF k \in DOMAIN d THEN Return(d[k]) ELSE Raise("KeyError", k, None)

\* d without key k.
DictDel(d, k) == [x \in (DOMAIN d) \ {k} |-> d[x]]

-----------------------------------------------------------------------------
(* Inputs of the BERT wrappers *)

Classes == {"BERTModel", "BertForClassification", "BertForPretraining", "BertForRegression"}
TaskWrappers == Classes \ {"BERTModel"}

VocabSizes == {1, 2}
\* config.problem_type; NoAttribute when the config has no such attribute.
NoAttribute == "<no attribute>"
ProblemTypes == {NoAttribute, None, "multi_label_classification"}

Configs == [num_labels : 0..MaxLabels, vocab_size : VocabSizes, problem_type : ProblemTypes]

\* tokenizer.model_input_names of the tokenizers tried; None for no tokenizer.
Tokenizers == {None, "tokenizer"}
TokenizerInputNames == {"input_ids", "attention_mask"}

Shapes == [1..2 -> 1..MaxDim]

SuppliedLoss == Tensor("hf_loss", <<>>)

\* Forward-pass outputs: logits, and a loss entry that is absent, None or given.
OutputsSet ==
    {[logits |-> Tensor("logits", sh)] : sh \in Shapes}
        \cup {[logits |-> Tensor("logits", sh), loss |-> l] : sh \in Shapes, l \in {NoneT, SuppliedLoss}}

\* Batches: with or without labels.
Batches ==
    {[input_ids |-> Tensor("input_ids", <<2, 2>>)]}
        \cup {[input_ids |-> Tensor("input_ids", <<2, 2>>), labels |-> Tensor("labels", sh)] :
                sh \in {<<2>>, <<2, 1>>}}

\* The extra positional and keyword arguments of loss.
LossArgs == {"()", "(reduction='sum')"}

\* The outputs of the forward pass that precedes the first loss call.
InitialOutputs == [logits |-> Tensor("logits", <<1, 1>>)]

\* How the forward pass ends: with these logits, or raising.
ForwardOutcomes ==
    {Return([logits |-> Tensor("logits", sh)]) : sh \in Shapes}
        \cup {Raise("RuntimeError", "forward", None)}

-----------------------------------------------------------------------------
(* BERTModel and its subclasses *)

ignore_index == -100

\* A new instance of cls, before any __init__ has run: it has no attribute yet.
NewInstance(cls) == [cls |-> cls]

\* self.<name> on an instance.
GetAttr(self, name) ==
    IF name \in DOMAIN self THEN Return(self[name]) ELSE Raise("AttributeError", name, None)

\* ComposerTransformer.__init__: keeps the config, adds 'labels' to the model
\* inputs; the module starts in training mode.
ComposerTransformer_init(self, config, model_inputs) ==
    [cls |-> self.cls, config |-> config, model_inputs |-> model_inputs \cup {"labels"},
     training |-> TRUE]

\* The validation metrics of BERTModel.__init__.
val_metrics(config) ==
    <<[metric |-> "Accuracy", args |-> EmptyDict],
      [metric |-> "MeanSquaredError", args |-> EmptyDict],
      [metric |-> "SpearmanCorrCoef", args |-> EmptyDict],
      [metric |-> "BinaryF1Score", args |-> EmptyDict],
      [metric |-> "MatthewsCorrCoef", args |-> [num_classes |-> config.num_labels]],
      [metric |-> "LanguageCrossEntropy",
       args |-> [ignore_index |-> ignore_index, vocab_size |-> config.num_labels]],
      [metric |-> "MaskedAccuracy", args |-> [ignore_index |-> ignore_index]]>>

\* BERTModel.__init__ on the instance self: its outcome and the instance made.
BERTModel_init(self, config, tokenizer) ==
    LET model_inputs == IF tokenizer = None
                        THEN {"input_ids", "attention_mask", "token_type_ids"}
                        ELSE TokenizerInputNames
        base == ComposerTransformer_init(self, config, model_inputs)
    IN  IF "labels" \notin base.model_inputs
        THEN [outcome |-> Raise("KeyError", "labels", None), made |-> {}]
        ELSE [outcome |-> Return(None),
              made |-> {[cls |-> base.cls,
                         config |-> base.config,
                         model_inputs |-> base.model_inputs \ {"labels"},
                         training |-> base.training,
                         val_metrics |-> val_metrics(config),
                         train_metrics |-> <<>>]}]

ClassificationLabelsOk(config) == config.num_labels >= 1
PretrainingLabelsOk(config) == config.num_labels = config.vocab_size
RegressionLabelsOk(config) == config.num_labels = 1

\* The label check of the __init__ of cls, on a config.
LabelsOk(cls, config) ==
    CASE cls = "BERTModel" -> TRUE
      [] cls = "BertForClassification" -> ClassificationLabelsOk(config)
      [] cls = "BertForPretraining" -> PretrainingLabelsOk(config)
      [] cls = "BertForRegression" -> RegressionLabelsOk(config)

\* The assert that opens the __init__ of a task wrapper: it reads self.config,
\* which no __init__ has assigned yet, and tests the label check on it.
InitAssert(self, message) ==
    LET c == GetAttr(self, "config")
    IN  IF c.kind = "raise" THEN c
        ELSE IF LabelsOk(self.cls, c.value) THEN Return(None)
        ELSE Raise("AssertionError", message, None)

\* BertForClassification.__init__
BertForClassification_init(self, config, tokenizer) ==
    LET a == InitAssert(self, "Model has only one label, use BertForRegression instead.")
    IN  IF a.kind = "raise" THEN [outcome |-> a, made |-> {}]
        ELSE BERTModel_init(self, config, tokenizer)

\* BertForPretraining.__init__
BertForPretraining_init(self, config, tokenizer) ==
    LET a == InitAssert(self, "Number of labels not equivalent to vocabulary size")
    IN  IF a.kind = "raise" THEN [outcome |-> a, made |-> {}]
        ELSE BERTModel_init(self, config, tokenizer)

\* BertForRegression.__init__
BertForRegression_init(self, config, tokenizer) ==
    LET a == InitAssert(self, "Model must have one label for regression.")
    IN  IF a.kind = "raise" THEN [outcome |-> a, made |-> {}]
        ELSE BERTModel_init(self, config, tokenizer)

\* cls(module, config, tokenizer)
Instantiate(cls, config, tokenizer) ==
    LET self == NewInstance(cls)
    IN  CASE cls = "BERTModel" -> BERTModel_init(self, config, tokenizer)
          [] cls = "BertForClassification" -> BertForClassification_init(self, config, tokenizer)
          [] cls = "BertForPretraining" -> BertForPretraining_init(self, config, tokenizer)
          [] cls = "BertForRegression" -> BertForRegression_init(self, config, tokenizer)

\* The instances the methods are called on: of any of the four classes, with
\* the attributes BERTModel.__init__ assigns and a config that meets the label
\* check of the class, in training or in eval mode.  (Instantiate shows what
\* the constructors of the task wrappers do themselves.)
Receivers ==
    UNION {{[m EXCEPT !.cls = cls, !.training = t] :
                cls \in {k \in Classes : LabelsOk(k, m.config)}, t \in BOOLEAN} :
            m \in UNION {BERTModel_init(NewInstance("BERTModel"), c, None).made : c \in Configs}}

\* The names torch.nn.functional defines, among those a loss is looked up by:
\* it has the loss functions, while the loss classes live in torch.nn.
TorchNNFunctional == {"cross_entropy", "mse_loss", "binary_cross_entropy_with_logits"}

\* torch.nn.functional.<name>(*args, **kwargs): the loss function object made,
\* or the AttributeError of the lookup.
functional_loss(name, args) ==
    LET out == IF name \in TorchNNFunctional
               THEN Return([fn |-> name, args |-> args])
               ELSE Raise("AttributeError", name, None)
    IN  [calls |-> <<Call("torch.nn.functional", [attr |-> name, args |-> args], out)>>,
         outcome |-> out]

\* BertForClassification.loss_fn
BertForClassification_loss_fn(self, args) ==
    LET loss_fct == functional_loss("CrossEntropyLoss", args)
    IN  IF loss_fct.outcome.kind = "raise" THEN loss_fct
        ELSE IF /\ self.config.problem_type # NoAttribute
                /\ self.config.problem_type = "multi_label_classification"
        THEN [calls |-> loss_fct.calls,
              outcome |-> Raise("NotImplementedError",
                                "Calculating loss directly not supported yet.", None)]
        ELSE loss_fct

\* BertForPretraining.loss_fn
BertForPretraining_loss_fn(self, args) == functional_loss("CrossEntropyLoss", args)

\* BertForRegression.loss_fn
BertForRegression_loss_fn(self, args) == functional_loss("MSELoss", args)

\* outputs.get('loss', None) is not None
HasLoss(outputs) == "loss" \in DOMAIN outputs /\ outputs["loss"] # NoneT

\* The value a loss function object returns for an input and a target.
LossValue(loss_fn, input, target) ==
    [id |-> "loss_val", shape |-> <<>>, fn |-> loss_fn, input |-> input, target |-> target]

\* The first argument of the loss function: the logits as the class of self
\* reshapes them.
LossInput(self, logits) ==
    CASE self.cls = "BertForClassification" -> ViewRows(logits, self.config.num_labels)
      [] self.cls = "BertForPretraining" -> Same(logits)
      [] self.cls = "BertForRegression" -> Squeeze(logits)

\* The second argument of the loss function: the labels as the class of self
\* reshapes them.
LossTarget(self, labels) ==
    CASE self.cls = "BertForClassification" -> ViewFlat(labels)
      [] self.cls = "BertForPretraining" -> Same(labels)
      [] self.cls = "BertForRegression" -> Squeeze(labels)

\* The body of a task wrapper's loss once outputs carries no loss: make the
\* loss function, read and reshape the logits, read and reshape the labels,
\* apply the function, store the value in outputs and return it.  f is what
\* self.loss_fn gave.
ComputeLoss(self, f, outputs, batch) ==
    LET stop(cs, out) == [calls |-> f.calls \o cs, outcome |-> out, outputs |-> outputs]
        logits == GetItem(outputs, "logits")
        input == LossInput(self, logits.value)
        readLabels == Call("batch.__getitem__", [key |-> "labels"], GetItem(batch, "labels"))
        labels == readLabels.outcome
        target == LossTarget(self, labels.value)
        loss_val == LossValue(f.outcome.value, input.value, target.value)
        apply == Call("loss_fn", [input |-> input.value, target |-> target.value], Return(loss_val))
    IN  IF f.outcome.kind = "raise" THEN stop(<<>>, f.outcome)
        ELSE IF logits.kind = "raise" THEN stop(<<>>, logits)
        ELSE IF input.kind = "raise" THEN stop(<<>>, input)
        ELSE IF labels.kind = "raise" THEN stop(<<readLabels>>, labels)
        ELSE IF target.kind = "raise" THEN stop(<<readLabels>>, target)
        ELSE [calls |-> f.calls \o <<readLabels, apply>>,
              outcome |-> Return(DictSet(outputs, "loss", loss_val)["loss"]),
              outputs |-> DictSet(outputs, "loss", loss_val)]

\* A loss call that returns what outputs carries.
SuppliedLossResult(outputs) ==
    [calls |-> <<>>, outcome |-> Return(outputs["loss"]), outputs |-> outputs]

\* BERTModel.loss
BERTModel_loss(self, outputs, batch) ==
    IF HasLoss(outputs)
    THEN SuppliedLossResult(outputs)
    ELSE [calls |-> <<>>,
          outcome |-> Raise("NotImplementedError",
                            "Calculating loss directly not supported yet.", None),
          outputs |-> outputs]

\* BertForClassification.loss
BertForClassification_loss(self, outputs, batch, args) ==
    IF ~HasLoss(outputs)
    THEN ComputeLoss(self, BertForClassification_loss_fn(self, args), outputs, batch)
    ELSE SuppliedLossResult(outputs)

\* BertForPretraining.loss
BertForPretraining_loss(self, outputs, batch, args) ==
    IF ~HasLoss(outputs)
    THEN ComputeLoss(self, BertForPretraining_loss_fn(self, args), outputs, batch)
    ELSE SuppliedLossResult(outputs)

\* BertForRegression.loss with the test for a supplied loss left out.
BertForRegression_loss_always(self, outputs, batch, args) ==
    ComputeLoss(self, BertForRegression_loss_fn(self, args), outputs, batch)

\* BertForRegression.loss
BertForRegression_loss(self, outputs, batch, args) ==
    IF ~HasLoss(outputs)
    THEN ComputeLoss(self, BertForRegression_loss_fn(self, args), outputs, batch)
    ELSE SuppliedLossResult(outputs)

\* self.loss(outputs, batch, *args, **kwargs), by the class of self.
loss(self, outputs, batch, args) ==
    CASE self.cls = "BERTModel" -> BERTModel_loss(self, outputs, batch)
      [] self.cls = "BertForClassification" -> BertForClassification_loss(self, outputs, batch, args)
      [] self.cls = "BertForPretraining" -> BertForPretraining_loss(self, outputs, batch, args)
      [] self.cls = "BertForRegression" -> BertForRegression_loss(self, outputs, batch, args)

\* BERTModel.validate; fwd is how the forward pass ends.
validate(self, batch, fwd) ==
    LET labels == GetItem(batch, "labels")
        popped == DictDel(batch, "labels")
        forward == Call("forward", [batch |-> popped], fwd)
    IN  IF self.training # FALSE
        THEN [calls |-> <<>>,
              outcome |-> Raise("AssertionError", "For validation, model must be in eval mode", None),
              batch |-> batch]
        ELSE IF labels.kind = "raise"
        THEN [calls |-> <<>>, outcome |-> labels, batch |-> batch]
        ELSE IF fwd.kind = "raise"
        THEN [calls |-> <<forward>>, outcome |-> fwd, batch |-> popped]
        ELSE [calls |-> <<forward>>,
              outcome |-> Return(<<SqueezeDim1(fwd.value["logits"]), labels.value>>),
              batch |-> popped]

\* metrics with the two lists the wrong way round.
metrics_swapped(self, train) ==
    Return([collection |-> IF train THEN self.val_metrics ELSE self.train_metrics])

\* BERTModel.metrics: the metrics the MetricCollection returned is made of.
metrics(self, train) ==
    Return([collection |-> IF train THEN self.train_metrics ELSE self.val_metrics])

-----------------------------------------------------------------------------
(* The operations of the BERT wrappers *)

\* cls(module, config, tokenizer)
ConstructModel ==
    /\ result.op = "none"
    /\ \E cls \in Classes, config \in Configs, tokenizer \in Tokenizers :
        LET r == Instantiate(cls, config, tokenizer)
        IN  /\ calls' = <<>>
            /\ result' = [op |-> "construct",
                          args |-> [cls |-> cls, config |-> config, tokenizer |-> tokenizer],
                          outcome |-> r.outcome, made |-> r.made]
            /\ bert' = IF r.outcome.kind = "return" THEN r.made ELSE bert
            /\ UNCHANGED <<storeVars, held_outputs>>

\* model.train(mode) and model.eval() of torch.nn.Module, which set the
\* training attribute that validate reads.
Train ==
    /\ result.op = "none"
    /\ \E self \in bert, mode \in BOOLEAN :
        /\ calls' = <<>>
        /\ result' = [op |-> "train", args |-> [mode |-> mode], outcome |-> Return(None)]
        /\ bert' = {[self EXCEPT !.training = mode]}
        /\ UNCHANGED <<storeVars, held_outputs>>

\* model.loss(outputs, batch, *args, **kwargs), on the outputs object of the
\* last loss call or on a new one.
Loss ==
    /\ result.op = "none"
    /\ \E self \in bert, o \in {held_outputs} \cup OutputsSet,
          b \in Batches, args \in LossArgs :
        LET r == loss(self, o, b, args)
        IN  /\ calls' = r.calls
            /\ result' = [op |-> "loss",
                          args |-> [outputs |-> o, batch |-> b, args |-> args],
                          outcome |-> r.outcome, batch |-> b]
            /\ held_outputs' = r.outputs
            /\ UNCHANGED <<storeVars, bert>>

\* model.validate(batch)
Validate ==
    /\ result.op = "none"
    /\ \E self \in bert, b \in Batches, fwd \in ForwardOutcomes :
        LET r == validate(self, b, fwd)
        IN  /\ calls' = r.calls
            /\ result' = [op |-> "validate", args |-> [batch |-> b],
                          outcome |-> r.outcome, batch |-> r.batch]
            /\ UNCHANGED <<storeVars, bert, held_outputs>>

\* model.metrics(train)
Metrics ==
    /\ result.op = "none"
    /\ \E self \in bert, train \in BOOLEAN :
        /\ calls' = <<>>
        /\ result' = [op |-> "metrics", args |-> [train |-> train],
                      outcome |-> metrics(self, train)]
        /\ UNCHANGED <<storeVars, bert, held_outputs>>

-----------------------------------------------------------------------------
(* The operations of the object store adapter *)

\* Before any operation: nothing called, nothing returned.
NoResult == [op |-> "none", args |-> <<>>, outcome |-> Return(None)]

\* The caller is between two operations: the last one has been observed.
Idle == result.op = "none"

StoreResult(op, args, r) == [op |-> op, args |-> args, outcome |-> r.outcome]

\* ObjectStoreProvider(provider, container, provider_init_kwargs)
Construct ==
    /\ Idle
    /\ \E provider \in Providers, container \in Containers, fail \in InitFailures,
       kw \in {NoDict, SomeDict(EmptyDict), SomeDict([key |-> "key_1"])} :
        LET r == ObjectStoreProvider_init(libcloud_installed, provider, container, kw, fail)
        IN  /\ calls' = r.calls
            /\ result' = StoreResult("ObjectStoreProvider",
                                     [provider |-> provider, container |-> container,
                                      provider_init_kwargs |-> kw], r)
            /\ store' = IF r.outcome.kind = "return" THEN r.made ELSE store
            /\ UNCHANGED <<libcloud_installed, bertVars>>

\* hparams.initialize_object()
InitializeObject ==
    /\ Idle
    /\ \E self \in HparamsSet, fail \in InitFailures :
        LET k == initialize_kwargs(self)
            ctor == [provider |-> k.self.provider, container |-> k.self.container,
                     provider_init_kwargs |-> SomeDict(k.init_kwargs)]
            r == ObjectStoreProvider_init(libcloud_installed, ctor.provider, ctor.container,
                                          ctor.provider_init_kwargs, fail)
        IN  /\ calls' = r.calls
            /\ result' = [op |-> "initialize_object", args |-> [self |-> self],
                          outcome |-> r.outcome, ctor |-> ctor, self_after |-> k.self]
            /\ store' = IF r.outcome.kind = "return" THEN r.made ELSE store
            /\ UNCHANGED <<libcloud_installed, bertVars>>

UploadObject ==
    /\ Idle
    /\ \E self \in store, file_path \in Paths, object_name \in ObjectNames,
       verify_hash \in BOOLEAN, extra \in Extras, headers \in Headers, d \in DriverOutcomes :
        LET r == upload_object(self, file_path, object_name, verify_hash, extra, headers, d)
        IN  /\ calls' = r.calls
            /\ result' = StoreResult("upload_object",
                                     [file_path |-> file_path, object_name |-> object_name,
                                      verify_hash |-> verify_hash, extra |-> extra,
                                      headers |-> headers], r)
            /\ UNCHANGED <<storeVars, bertVars>>

UploadObjectViaStream ==
    /\ Idle
    /\ \E self \in store, obj \in Payloads, object_name \in ObjectNames,
       extra \in Extras, headers \in Headers, d \in DriverOutcomes :
        LET r == upload_object_via_stream(self, obj, object_name, extra, headers, d)
        IN  /\ calls' = r.calls
            /\ result' = StoreResult("upload_object_via_stream",
                                     [obj |-> obj, object_name |-> object_name,
                                      extra |-> extra, headers |-> headers], r)
            /\ UNCHANGED <<storeVars, bertVars>>

DownloadObject ==
    /\ Idle
    /\ \E self \in store, object_name \in ObjectNames, destination_path \in Paths,
       overwrite_existing \in BOOLEAN, delete_on_failure \in BOOLEAN,
       g \in GetObjectOutcomes, d \in DriverOutcomes :
        LET r == download_object(self, object_name, destination_path, overwrite_existing,
                                 delete_on_failure, g, d)
        IN  /\ calls' = r.calls
            /\ result' = StoreResult("download_object",
                                     [object_name |-> object_name,
                                      destination_path |-> destination_path,
                                      overwrite_existing |-> overwrite_existing,
                                      delete_on_failure |-> delete_on_failure], r)
            /\ UNCHANGED <<storeVars, bertVars>>

DownloadObjectAsStream ==
    /\ Idle
    /\ \E self \in store, object_name \in ObjectNames, chunk_size \in ChunkSizes,
       g \in GetObjectOutcomes, d \in DriverOutcomes :
        LET r == download_object_as_stream(self, object_name, chunk_size, g, d)
        IN  /\ calls' = r.calls
            /\ result' = StoreResult("download_object_as_stream",
                                     [object_name |-> object_name, chunk_size |-> chunk_size], r)
            /\ UNCHANGED <<storeVars, bertVars>>

\* The caller has seen the outcome of the last operation and goes on; the
\* objects stay as the operation left them.
CallerContinues ==
    /\ ~Idle
    /\ calls' = <<>>
    /\ result' = NoResult
    /\ UNCHANGED <<storeVars, bertVars>>

InitStore ==
    /\ libcloud_installed \in BOOLEAN
    /\ store = {}
    /\ calls = <<>>
    /\ result = NoResult
    /\ bert = {}
    /\ held_outputs = InitialOutputs

NextStore ==
    \/ Construct
    \/ InitializeObject
    \/ UploadObject
    \/ UploadObjectViaStream
    \/ DownloadObject
    \/ DownloadObjectAsStream
    \/ CallerContinues

SpecStore == InitStore /\ [][NextStore]_vars

InitBert ==
    /\ libcloud_installed = TRUE
    /\ store = {}
    /\ calls = <<>>
    /\ result = NoResult
    /\ bert \in {{m} : m \in Receivers}
    /\ held_outputs = InitialOutputs

NextBert ==
    \/ ConstructModel
    \/ Train
    \/ Loss
    \/ Validate
    \/ Metrics
    \/ CallerContinues

SpecBert == InitBert /\ [][NextBert]_vars

-----------------------------------------------------------------------------
(* Properties of the object store adapter *)

\* The instance the last method call was made on.
TheStore == CHOOSE self \in store : TRUE

\* The calls of the last operation to the driver method m.
CallsTo(m) == {i \in DOMAIN calls : calls[i].method = m}

LookupReturned == Len(calls) >= 1 /\ calls[1].method = "get_object" /\ calls[1].outcome.kind = "return"

LookupRaised == Len(calls) >= 1 /\ calls[1].method = "get_object" /\ calls[1].outcome.kind = "raise"

\* The lookup of a download: get_object(container name, object_name).
LookupForwarded ==
    /\ Len(calls) >= 1
    /\ calls[1].method = "get_object"
    /\ calls[1].args = [container_name |-> TheStore._container.name,
                       object_name |-> result.args.object_name]

UploadObjectForwarded ==
    /\ Len(calls) = 1
    /\ calls[1].method = "upload_object"
    /\ calls[1].args = [file_path |-> result.args.file_path,
                       container |-> TheStore._container,
                       object_name |-> result.args.object_name,
                       extra |-> result.args.extra,
                       verify_hash |-> result.args.verify_hash,
                       headers |-> result.args.headers]

\* The stream upload forwarded with `payload` as its iterator.
ViaStreamForwarded(payload) ==
    /\ Len(calls) = 1
    /\ calls[1].method = "upload_object_via_stream"
    /\ calls[1].args = [iterator |-> payload,
                       container |-> TheStore._container,
                       object_name |-> result.args.object_name,
                       extra |-> result.args.extra,
                       headers |-> result.args.headers]

DownloadObjectForwarded ==
    /\ LookupForwarded
    /\ Len(calls) = 2
    /\ calls[2].method = "download_object"
    /\ calls[2].args = [obj |-> calls[1].outcome.value,
                       destination_path |-> result.args.destination_path,
                       overwrite_existing |-> result.args.overwrite_existing,
                       delete_on_failure |-> result.args.delete_on_failure]

AsStreamForwarded ==
    /\ LookupForwarded
    /\ Len(calls) = 2
    /\ calls[2].method = "download_object_as_stream"
    /\ calls[2].args = [obj |-> calls[1].outcome.value, chunk_size |-> result.args.chunk_size]

\* C1 as stated: each of the four methods calls its driver method exactly once
\* and hands it every argument of the caller unchanged (a bytes payload of
\* upload_object_via_stream included), with the container of the instance
\* (uploads) or the object get_object returned (downloads).
C1_EveryArgumentUnchanged ==
    /\ result.op = "upload_object" => UploadObjectForwarded
    /\ result.op = "upload_object_via_stream" => ViaStreamForwarded(result.args.obj)
    /\ (result.op = "download_object" /\ LookupReturned) => DownloadObjectForwarded
    /\ (result.op = "download_object_as_stream" /\ LookupReturned) => AsStreamForwarded

\* A bytes value as the iterator the driver is to receive: its bytes one at a
\* time, in order, each as a bytes value of length one.
OneByteChunks(b) == [i \in 1..Len(b) |-> <<b[i]>>]

\* C1 amended: the arguments are forwarded unchanged, except that a bytes
\* payload of upload_object_via_stream reaches the driver as a new iterator over
\* its bytes, one byte per chunk; a download calls its driver method once, with
\* the object the get_object lookup returned (and not at all if it raises).
C1_ForwardedArguments ==
    /\ result.op = "upload_object" => UploadObjectForwarded
    /\ result.op = "upload_object_via_stream" =>
          IF result.args.obj.kind = "bytes"
          THEN ViaStreamForwarded(IteratorPayload(OneByteChunks(result.args.obj.bytes), "adapter"))
          ELSE ViaStreamForwarded(result.args.obj)
    /\ result.op = "download_object" =>
          /\ LookupForwarded
          /\ LookupReturned => DownloadObjectForwarded
          /\ LookupRaised => Len(calls) = 1
    /\ result.op = "download_object_as_stream" =>
          /\ LookupForwarded
          /\ LookupReturned => AsStreamForwarded
          /\ LookupRaised => Len(calls) = 1

\* A two-byte bytes payload has reached the driver as two one-byte chunks.
C1_Witness ==
    /\ result.op = "upload_object_via_stream"
    /\ result.args.obj = BytesPayload(<<0, 1>>)
    /\ Len(calls) = 1
    /\ calls[1].args.iterator.chunks = << <<0>>, <<1>> >>
    /\ calls[1].args.headers = "headers_1"

StoreMethods == {"upload_object", "upload_object_via_stream", "download_object",
                 "download_object_as_stream"}

\* The last call the operation made into the driver.
LastCall == calls[Len(calls)]

\* No call but the last one raised.
OnlyLastRaises == \A i \in 1..(Len(calls) - 1) : calls[i].outcome.kind = "return"

\* C2 as stated: the caller of each of the four methods sees exactly the outcome
\* of the driver call, the value it returned or the exception it raised.
C2_OutcomeIsDriverOutcome ==
    result.op \in StoreMethods =>
        /\ OnlyLastRaises
        /\ result.outcome = LastCall.outcome

\* C2 amended: an exception of the driver (of its get_object lookup too) reaches
\* the caller as raised, after which no further driver method is called; when
\* the driver returns, download_object_as_stream returns the driver's value and
\* the other three methods return None whatever the driver returned.
C2_OutcomePropagation ==
    result.op \in StoreMethods =>
        /\ OnlyLastRaises
        /\ LastCall.outcome.kind = "raise" => result.outcome = LastCall.outcome
        /\ LastCall.outcome.kind = "return" =>
              IF result.op = "download_object_as_stream"
              THEN result.outcome = LastCall.outcome
              ELSE result.outcome = Return(None)

\* download_object_as_stream has handed the driver's value to its caller.
C2_Witness ==
    /\ result.op = "download_object_as_stream"
    /\ Len(calls) = 2
    /\ calls[2].outcome = Return("driver_value_1")
    /\ result.outcome = Return("driver_value_1")

\* The library calls of a construction that runs to its end.
ConstructionCalls(provider, container, kwargs) ==
    <<[method |-> "get_driver", args |-> [provider |-> provider]],
      [method |-> "provider_cls", args |-> [kwargs |-> kwargs]],
      [method |-> "get_container", args |-> [container_name |-> container]]>>

\* C8: without libcloud the constructor raises ImportError with the install
\* hint, chained to the import's own failure, and calls nothing; with libcloud
\* it calls get_driver(provider), then the driver class with
\* provider_init_kwargs ({} for None), then get_container(container), in that
\* order, stopping at the first call that raises.
C8_Construction ==
    result.op = "ObjectStoreProvider" =>
        LET a == result.args
            kwargs == IF a.provider_init_kwargs.is_none
                      THEN EmptyDict ELSE a.provider_init_kwargs.dict
            want == ConstructionCalls(a.provider, a.container, kwargs)
        IN  IF ~libcloud_installed
            THEN /\ calls = <<>>
                 /\ result.outcome = Raise("ImportError", ImportHint, OriginalImportError)
            ELSE /\ Len(calls) \in 1..3
                 /\ \A i \in 1..Len(calls) :
                        /\ calls[i].method = want[i].method
                        /\ calls[i].args = want[i].args
                 /\ OnlyLastRaises
                 /\ result.outcome.kind = "return" => Len(calls) = 3
                 /\ result.outcome.kind = "raise" => result.outcome = LastCall.outcome

\* A construction with provider_init_kwargs = None has run to its end.
C8_Witness ==
    /\ result.op = "ObjectStoreProvider"
    /\ result.args.provider_init_kwargs.is_none
    /\ result.outcome = Return(None)
    /\ Len(calls) = 3
    /\ calls[2].args.kwargs = EmptyDict
    /\ store = {[_provider |-> [name |-> result.args.provider],
                 _container |-> ContainerObj(result.args.container)]}

FieldNames == {HparamsFields[i] : i \in DOMAIN HparamsFields}

\* C9: initialize_object passes provider and container on unchanged, with
\* keyword arguments that hold every entry of extra_init_kwargs, besides them
\* each of key, secret, host, port and region whose field is not None with the
\* field's value, and nothing else; the hparams object is left as it was.
C9_InitializeObject ==
    result.op = "initialize_object" =>
        LET self == result.args.self
            extra == self.extra_init_kwargs
            kw == result.ctor.provider_init_kwargs
        IN  /\ result.ctor.provider = self.provider
            /\ result.ctor.container = self.container
            /\ ~kw.is_none
            /\ DOMAIN kw.dict = (DOMAIN extra) \cup {f \in FieldNames : self[f] # None}
            /\ \A k \in DOMAIN kw.dict :
                   kw.dict[k] = IF k \in DOMAIN extra THEN extra[k] ELSE self[k]
            /\ result.self_after = self
            /\ libcloud_installed =>
                   /\ calls[1].args.provider = self.provider
                   /\ Len(calls) >= 2 => calls[2].args.kwargs = kw.dict
                   /\ Len(calls) >= 3 => calls[3].args.container_name = self.container

\* An entry of extra_init_kwargs has won over the field of the same name, next
\* to a field passed as it is and a name only extra_init_kwargs has.
C9_Witness ==
    /\ result.op = "initialize_object"
    /\ result.args.self.key = "key_1"
    /\ result.args.self.port = "port_1"
    /\ result.args.self.region = None
    /\ result.ctor.provider_init_kwargs.dict =
           [key |-> "extra_value", port |-> "port_1", token |-> "extra_value"]
    /\ Len(calls) = 3

-----------------------------------------------------------------------------
(* Properties of the BERT wrappers *)

\* The instance the last method call was made on.
TheModel == CHOOSE m \in bert : TRUE

\* The outputs handed to the last loss call came with a loss that is not None.
LossSupplied ==
    /\ "loss" \in DOMAIN result.args.outputs
    /\ result.args.outputs["loss"] # NoneT

\* The last operation looked a loss function up, made one or applied one.
LossFunctionTouched ==
    \E i \in DOMAIN calls : calls[i].method \in {"torch.nn.functional", "loss_fn"}

\* The last operation read batch['labels'].
LabelsRead == \E i \in DOMAIN calls : calls[i].method = "batch.__getitem__"

\* C3: a task wrapper's loss on outputs that carry a loss other than None
\* returns that loss, makes and applies no loss function, does not read
\* batch['labels'] and leaves outputs as they were; a loss function comes into
\* play only when outputs has no loss or the loss is None.
C3_SuppliedLossReturned ==
    (result.op = "loss" /\ TheModel.cls \in TaskWrappers) =>
        /\ LossSupplied =>
              /\ result.outcome.kind = "return"
              /\ result.outcome.value = result.args.outputs["loss"]
              /\ ~LossFunctionTouched
              /\ ~LabelsRead
              /\ held_outputs = result.args.outputs
              /\ result.batch = result.args.batch
        /\ LossFunctionTouched => ~LossSupplied

\* BertForRegression.loss has returned the loss its outputs came with.
C3_Witness ==
    /\ result.op = "loss"
    /\ TheModel.cls = "BertForRegression"
    /\ LossSupplied
    /\ "labels" \in DOMAIN result.args.batch
    /\ result.outcome.kind = "return"
    /\ result.outcome.value = SuppliedLoss

\* The loss function C4 names for each task wrapper.
C4_LossName == [BertForClassification |-> "CrossEntropyLoss",
                BertForPretraining |-> "CrossEntropyLoss",
                BertForRegression |-> "MSELoss"]

\* C4 as stated: when outputs carries no loss, BertForClassification and
\* BertForPretraining yield a cross-entropy value and BertForRegression a
\* mean-squared-error value (of the logits and labels, reshaped as the subclass
\* does), never an error.
C4_LossComputed ==
    (/\ result.op = "loss"
     /\ TheModel.cls \in TaskWrappers
     /\ ~LossSupplied
     /\ "logits" \in DOMAIN result.args.outputs
     /\ "labels" \in DOMAIN result.args.batch
     /\ TheModel.cls = "BertForClassification" =>
            /\ TheModel.config.problem_type # "multi_label_classification"
            /\ TheModel.config.num_labels >= 1
            /\ Numel(result.args.outputs["logits"].shape) % TheModel.config.num_labels = 0) =>
        /\ result.outcome.kind = "return"
        /\ result.outcome.value.fn.fn = C4_LossName[TheModel.cls]
        /\ held_outputs["loss"] = result.outcome.value

\* The label cardinality C5 asks of the config, by class.
C5_LabelsOk(cls, config) ==
    CASE cls = "BertForClassification" -> config.num_labels >= 1
      [] cls = "BertForPretraining" -> config.num_labels = config.vocab_size
      [] cls = "BertForRegression" -> config.num_labels = 1

\* C5 as stated: constructing a task wrapper succeeds when the config passed in
\* has the label cardinality of the task, and otherwise fails with an
\* AssertionError and makes no instance.
C5_ConstructionChecksLabels ==
    (result.op = "construct" /\ result.args.cls \in TaskWrappers) =>
        IF C5_LabelsOk(result.args.cls, result.args.config)
        THEN result.outcome.kind = "return" /\ result.made # {}
        ELSE /\ result.outcome.kind = "raise"
             /\ result.outcome.exc = "AssertionError"
             /\ result.made = {}

RaisedNotImplemented ==
    result.outcome.kind = "raise" /\ result.outcome.exc = "NotImplementedError"

\* C6 as stated: BERTModel.loss raises NotImplementedError exactly when outputs
\* has no loss other than None; BertForClassification.loss raises it when
\* outputs has no such loss and config.problem_type is
\* 'multi_label_classification'; a failing call stores no loss in outputs, and
\* with a supplied loss neither raises.
C6_NotImplemented ==
    result.op = "loss" =>
        /\ TheModel.cls = "BERTModel" => (RaisedNotImplemented <=> ~LossSupplied)
        /\ (/\ TheModel.cls = "BertForClassification"
            /\ ~LossSupplied
            /\ TheModel.config.problem_type = "multi_label_classification") =>
                RaisedNotImplemented
        /\ result.outcome.kind = "raise" => held_outputs = result.args.outputs
        /\ (TheModel.cls \in {"BERTModel", "BertForClassification"} /\ LossSupplied) =>
                result.outcome.kind = "return"

\* The seven validation metrics.
ValidationMetricNames ==
    <<"Accuracy", "MeanSquaredError", "SpearmanCorrCoef", "BinaryF1Score",
      "MatthewsCorrCoef", "LanguageCrossEntropy", "MaskedAccuracy">>

MetricNames(ms) == [i \in DOMAIN ms |-> ms[i].metric]

\* C7: metrics(False) is made of the seven validation metrics and metrics(True)
\* of no metric, whatever the class of the instance; and the instance keeps
\* these two lists through every loss, validate, metrics, train and eval call.
C7_FixedMetrics ==
    /\ \A m \in bert :
          /\ MetricNames(m.val_metrics) = ValidationMetricNames
          /\ m.train_metrics = <<>>
    /\ result.op = "metrics" =>
          /\ result.outcome.kind = "return"
          /\ MetricNames(result.outcome.value.collection) =
                IF result.args.train THEN <<>> ELSE ValidationMetricNames

\* metrics(True) on a regression wrapper has returned an empty collection.
C7_Witness ==
    /\ result.op = "metrics"
    /\ result.args.train
    /\ TheModel.cls = "BertForRegression"
    /\ result.outcome.value.collection = <<>>
    /\ Len(TheModel.val_metrics) = 7

\* A shape without its second dimension.
WithoutDim1(shape) == <<shape[1]>> \o SubSeq(shape, 3, Len(shape))

\* C10: in training mode validate fails with an AssertionError, touching
\* neither the batch nor forward.  In eval mode, on a batch with labels, the
\* labels leave the batch before forward is called, forward gets the batch
\* without them, and when forward returns validate returns (logits, labels),
\* the logits without their second dimension if and only if its size is 1.
C10_Validate ==
    result.op = "validate" =>
        LET b == result.args.batch
        IN  IF TheModel.training
            THEN /\ result.outcome.kind = "raise"
                 /\ result.outcome.exc = "AssertionError"
                 /\ calls = <<>>
                 /\ result.batch = b
            ELSE "labels" \in DOMAIN b =>
                 /\ Len(calls) = 1
                 /\ calls[1].method = "forward"
                 /\ DOMAIN calls[1].args.batch = (DOMAIN b) \ {"labels"}
                 /\ \A k \in DOMAIN calls[1].args.batch : calls[1].args.batch[k] = b[k]
                 /\ result.batch = calls[1].args.batch
                 /\ calls[1].outcome.kind = "return" =>
                       LET logits == calls[1].outcome.value["logits"]
                       IN  /\ result.outcome.kind = "return"
                           /\ result.outcome.value[2] = b["labels"]
                           /\ result.outcome.value[1].id = logits.id
                           /\ result.outcome.value[1].shape =
                                 IF logits.shape[2] = 1
                                 THEN WithoutDim1(logits.shape) ELSE logits.shape

\* validate in eval mode has returned logits of shape (1, 1) as shape (1), with
\* the labels popped from the batch.
C10_Witness ==
    /\ result.op = "validate"
    /\ ~TheModel.training
    /\ result.outcome.kind = "return"
    /\ Len(calls) = 1
    /\ calls[1].outcome.value["logits"].shape = <<1, 1>>
    /\ result.outcome.value[1].shape = <<1>>
    /\ "labels" \in DOMAIN result.args.batch
    /\ "labels" \notin DOMAIN result.batch

\* The last loss call was handed logits and labels its class can reshape, and
\* not the multi-label case BertForClassification leaves unimplemented.
C11_Computable ==
    /\ "logits" \in DOMAIN result.args.outputs
    /\ "labels" \in DOMAIN result.args.batch
    /\ TheModel.cls = "BertForClassification" =>
          /\ TheModel.config.problem_type # "multi_label_classification"
          /\ TheModel.config.num_labels >= 1
          /\ Numel(result.args.outputs["logits"].shape) % TheModel.config.num_labels = 0

\* C11 as stated: after any loss call of a task wrapper, outputs holds under
\* 'loss' the value the call returned, a computing call having stored what it
\* computed; and a call on outputs that already hold a loss (from the model or
\* from an earlier call, whatever the batch and the extra arguments) returns
\* it with no loss function coming into play and outputs left as they were.
C11_LossStoredAndReused ==
    (result.op = "loss" /\ TheModel.cls \in TaskWrappers /\ C11_Computable) =>
        /\ result.outcome.kind = "return"
        /\ "loss" \in DOMAIN held_outputs
        /\ held_outputs["loss"] = result.outcome.value
        /\ LossSupplied =>
              /\ ~LossFunctionTouched
              /\ held_outputs = result.args.outputs
              /\ result.outcome.value = result.args.outputs["loss"]

====
